---- MODULE Spec2Model ----
(***************************************************************************)
(* State-machine model of InvestmentTiming.py: the Date Resolver           *)
(* (get_first_marketday), the Share Converter (investment_to_shares), the  *)
(* two Strategy Simulators (investYearly, investSubannually), Portfolio    *)
(* Valuation (share_purchases_to_portfolio_value) and the Monte Carlo      *)
(* driver (monteCarlo).                                                    *)
(*                                                                         *)
(* Python strings are sequences of one-character strings, a dict is the    *)
(* sequence of its <<key, value>> items in insertion order, and a float is *)
(* an exact fraction <<numerator, denominator>> in lowest terms.  The      *)
(* amounts and prices of the calls are chosen so that every share count    *)
(* and every sum of them is exact in binary floating point too; only the   *)
(* ratio of a Monte Carlo sample is the exact quotient where the program   *)
(* holds the nearest double.  exit() ends the program: pc = "exited".  Of   *)
(* the generator of the module random the model keeps the number of values *)
(* drawn, modulo RngPeriod, so that a pass of a loop that draws the same   *)
(* values again is a step of the program.                                  *)
(***************************************************************************)
EXTENDS Integers, Sequences, FiniteSets, TLC

(***************************************************************************)
(* Bounds of the model.                                                    *)
(***************************************************************************)
\* number of calendar years the price series covers, ending with LastYear
NumYears == 2
\* longest run of consecutive months missing from the price series
MaxGap == 3
\* largest `iterations` argument of monteCarlo
MaxIterations == 2
\* the roll-forward cursors are followed up to this value
MaxCursor == 15
\* largest number of dates in a ledger handed to the valuation directly
MaxLedger == 2
\* the state of the random generator is followed as the number of values
\* drawn from it, counted modulo this
RngPeriod == 3

(***************************************************************************)
(* Program constants.                                                      *)
(***************************************************************************)
\* last valid year: get_first_marketday's range check, monteCarlo's randint
LastYear == 2024
\* first valid year of get_first_marketday's range check
MinYear == 1920
\* first valid starting_year of get_index_data
MinStartingYear == 1983
\* the month after December: the fatal test of the roll-forward loops
PastDecember == 13
\* the yearly investment of the script
yearlyInvestmentMain == 12000

FirstYear == LastYear - NumYears + 1

(***************************************************************************)
(* Python strings.                                                         *)
(***************************************************************************)
Digits == <<"0", "1", "2", "3", "4", "5", "6", "7", "8", "9">>

RECURSIVE str(_)
\* str(n) of an int
str(n) ==
  IF n < 0 THEN <<"-">> \o str(0 - n)
  ELSE IF n < 10 THEN <<Digits[n + 1]>>
  ELSE str(n \div 10) \o <<Digits[(n % 10) + 1]>>

\* the two-digit, zero-padded field of strftime('%Y-%m-%d')
Pad2(n) == IF n < 10 THEN <<"0">> \o str(n) ELSE str(n)

\* first_day.strftime('%Y-%m-%d')
strftime(y, m, d) == str(y) \o <<"-">> \o Pad2(m) \o <<"-">> \o Pad2(d)

\* Python's  sub in s  for strings
StrIn(sub, s) ==
  \E i \in 0..(Len(s) - Len(sub)) : SubSeq(s, i + 1, i + Len(sub)) = sub

\* the string "notFound"
notFound == <<"n", "o", "t", "F", "o", "u", "n", "d">>

(***************************************************************************)
(* Python floats, as exact fractions.                                      *)
(***************************************************************************)
RECURSIVE GCD(_, _)
GCD(a, b) == IF b = 0 THEN a ELSE GCD(b, a % b)

Abs(n) == IF n < 0 THEN 0 - n ELSE n

\* the fraction n/d (d # 0) in lowest terms with a positive denominator
Frac(n, d) ==
  LET s == IF d < 0 THEN 0 - 1 ELSE 1
      g == GCD(Abs(n), Abs(d))
  IN  <<(s * n) \div g, (s * d) \div g>>

\* an int used as a float
Float(n) == <<n, 1>>

\* a + b
FAdd(a, b) == Frac(a[1] * b[2] + b[1] * a[2], a[2] * b[2])
\* a * b
FMul(a, b) == Frac(a[1] * b[1], a[2] * b[2])
\* a / b, for b # 0
FDiv(a, b) == Frac(a[1] * b[2], a[2] * b[1])

Zero == Float(0)

\* round(x) for x >= 0: to the nearest int, a tie to the even one
round(x) ==
  LET q == x[1] \div x[2]
      r == x[1] % x[2]
  IN  IF 2 * r < x[2] THEN q
      ELSE IF 2 * r > x[2] THEN q + 1
      ELSE IF q % 2 = 0 THEN q ELSE q + 1

(***************************************************************************)
(* Python dicts: the sequence of <<key, value>> items, insertion order.    *)
(***************************************************************************)
EmptyDict == <<>>

Keys(d) == [i \in 1..Len(d) |-> d[i][1]]

KeySet(d) == {d[i][1] : i \in 1..Len(d)}

\* d[k], for a key of d
Item(d, k) == d[CHOOSE i \in 1..Len(d) : d[i][1] = k][2]

\* d.get(k, default)
Get(d, k, default) == IF k \in KeySet(d) THEN Item(d, k) ELSE default

\* d after  d[k] = v : a present key keeps its place, a new key is appended
SetItem(d, k, v) ==
  IF k \in KeySet(d)
  THEN [i \in 1..Len(d) |-> IF d[i][1] = k THEN <<k, v>> ELSE d[i]]
  ELSE Append(d, <<k, v>>)

(***************************************************************************)
(* get_index_data(index, starting_year).  The raw data of an index is what *)
(* the download returns; of it the model keeps, for each month that has    *)
(* trading days, the first of them and its opening price.                  *)
(***************************************************************************)
Years == FirstYear..LastYear

\* the (year, month) pairs of the years of the model, in calendar order
YearMonths ==
  [i \in 1..(12 * NumYears) |-> <<FirstYear + ((i - 1) \div 12), ((i - 1) % 12) + 1>>]

\* day of the month of the first trading day of a month of the raw data
FirstDay(y, m) == 1 + ((y + m) % 3)

PriceList == <<100, 50, 25, 20, 80, 200, 40>>

\* the opening price on that day
OpenPrice(y, m) == Float(PriceList[((5 * y + 3 * m) % Len(PriceList)) + 1])

\* first_day.strftime('%Y-%m-%d') for the first trading day of a month
DateKey(y, m) == strftime(y, m, FirstDay(y, m))

\* a run of `len` consecutive months, starting at month `from` of year y
Gap(y, from, len) == {<<y, m>> : m \in from..(from + len - 1)}

Gaps(maxLen) ==
  {{}} \cup {Gap(y, from, len) :
               y \in Years, from \in 1..12, len \in 1..maxLen}

\* the months of the raw data downloaded from starting_year on, for an index
\* that has no trading days in the months of `missing`
raw_data(missing, starting_year) ==
  SelectSeq(YearMonths, LAMBDA ym : ym \notin missing /\ ym[1] >= starting_year)

\* month a is not after month b
MonthLeq(a, b) == a[1] < b[1] \/ (a[1] = b[1] /\ a[2] <= b[2])

\* the month of the raw data on which the walk from the first day of month m
\* of year y ends: the first month on or after it that has trading days;
\* <<>> when the raw data has no later trading day and the walk finds none
first_day(raw, y, m) ==
  LET later == SelectSeq(raw, LAMBDA ym : MonthLeq(<<y, m>>, ym))
  IN  IF later = <<>> THEN <<>> ELSE later[1]

\* the first year of the raw data, the next one when it does not begin in January
earliest_year_in_data(raw) ==
  IF raw[1][2] # 1 THEN raw[1][1] + 1 ELSE raw[1][1]

\* the (year, month) pairs of  for year in range(earliest, 2025): for month
\* in range(1, 13)
LoopMonths(earliest) ==
  [i \in 1..(12 * (LastYear - earliest + 1)) |->
     <<earliest + ((i - 1) \div 12), ((i - 1) % 12) + 1>>]

\* dictionary_data after the month loop: pass i runs  dictionary_data[key] =
\* value  with the key and the price of the day its walk ends on.  A pass
\* whose key an earlier pass set writes the same price under the same key and
\* leaves the order alone, so the items are those of the passes that set a
\* key for the first time, in loop order
dictionary_data(raw, loop) ==
  LET day == [i \in 1..Len(loop) |-> first_day(raw, loop[i][1], loop[i][2])]
      key == [i \in 1..Len(loop) |-> DateKey(day[i][1], day[i][2])]
      inserts == SelectSeq([i \in 1..Len(loop) |-> i],
                           LAMBDA i : \A j \in 1..(i - 1) : key[j] # key[i])
  IN  [n \in 1..Len(inserts) |->
         <<key[inserts[n]], OpenPrice(day[inserts[n]][1], day[inserts[n]][2])>>]

\* the call: "exited" for a starting year out of range, "raised" when a walk
\* runs past the last trading day of the raw data, else the dictionary and
\* the first year
get_index_data(missing, starting_year) ==
  LET raw == raw_data(missing, starting_year)
      none == [status |-> "exited", dictionary_data |-> EmptyDict,
               earliest_year_in_data |-> 0]
  IN  IF starting_year < MinStartingYear \/ starting_year > LastYear THEN none
      ELSE IF raw = <<>> THEN [none EXCEPT !.status = "raised"]
      ELSE LET loop == LoopMonths(earliest_year_in_data(raw))
           IN  IF \E i \in 1..Len(loop) : first_day(raw, loop[i][1], loop[i][2]) = <<>>
               THEN [none EXCEPT !.status = "raised"]
               ELSE [status |-> "returned",
                     dictionary_data |-> dictionary_data(raw, loop),
                     earliest_year_in_data |-> earliest_year_in_data(raw)]

\* the dictionaries get_index_data returns for the raw data that lack the
\* months of one of `gaps`
IndexSeries(gaps) ==
  {r.dictionary_data :
     r \in {x \in {get_index_data(g, FirstYear) : g \in gaps} : x.status = "returned"}}

\* the dictionary of raw data that has every month
CompleteSeries == get_index_data({}, FirstYear).dictionary_data

\* the dictionaries of the raw data with a gap of at most MaxGap months
GapSeries == IndexSeries(Gaps(MaxGap))

(***************************************************************************)
(* get_first_marketday(kl, yr, mo)                                         *)
(***************************************************************************)
\* the search string "yyyy-mm-"
searchString(yr, mo) ==
  IF mo < 10 THEN str(yr) \o <<"-", "0">> \o str(mo) \o <<"-">>
  ELSE str(yr) \o <<"-">> \o str(mo) \o <<"-">>

\* [index for index in kl if searchString in index]
dateMatches(kl, yr, mo) ==
  SelectSeq(Keys(kl), LAMBDA index : StrIn(searchString(yr, mo), index))

\* mutation: of several matches the last one is returned
get_last_marketday(kl, yr, mo) ==
  IF yr < MinYear \/ yr > LastYear THEN notFound
  ELSE IF mo < 1 \/ mo > 12 THEN notFound
  ELSE IF Len(dateMatches(kl, yr, mo)) < 1 THEN notFound
  ELSE dateMatches(kl, yr, mo)[Len(dateMatches(kl, yr, mo))]

get_first_marketday(kl, yr, mo) ==
  IF yr < MinYear \/ yr > LastYear THEN notFound
  ELSE IF mo < 1 \/ mo > 12 THEN notFound
  ELSE IF Len(dateMatches(kl, yr, mo)) < 1 THEN notFound
  ELSE dateMatches(kl, yr, mo)[1]

(***************************************************************************)
(* investment_to_shares(investment, price)                                 *)
(***************************************************************************)
investment_to_shares(investment, price) == FDiv(investment, price)

(***************************************************************************)
(* State.                                                                  *)
(***************************************************************************)
VARIABLES
  call,                 \* the top-level call: the function and its arguments
  pc,                   \* position in the function that is running
  result,               \* what the top-level call returned, <<>> before
  \* investYearly / investSubannually: arguments and locals
  tradingDays, yearlyInvestment, startYear, endYear, tradingMonth, timesPerYear,
  yearInvested, event, monthInvested, errorMonth, mon, dateKey,
  heldShares, totalShares,
  \* monteCarlo: locals
  mcpc, it, start_year, end_year, times_per_year, totalSharesY, returns_ratio,
  \* share_purchases_to_portfolio_value: locals
  datePos, portfolio_value, portfolio_held_shares, dated_portfolio_values,
  \* the module random: the state of its generator
  rng

simArgs == <<tradingDays, yearlyInvestment, startYear, endYear, timesPerYear>>
simLocals ==
  <<tradingMonth, yearInvested, event, monthInvested, errorMonth, mon, dateKey,
    heldShares, totalShares>>
mcVars == <<mcpc, it, start_year, end_year, times_per_year, totalSharesY, returns_ratio>>
valVars == <<datePos, portfolio_value, portfolio_held_shares, dated_portfolio_values>>
vars == <<call, pc, result, simArgs, simLocals, mcVars, valVars, rng>>

\* the generator after n values were drawn from it
Drawn(state, n) == (state + n) % RngPeriod

\* the frequencies monteCarlo supports
valid_trading_frequencies == <<2, 3, 4, 6, 12>>

Range(s) == {s[i] : i \in 1..Len(s)}

(***************************************************************************)
(* The calls the model makes.                                              *)
(***************************************************************************)
\* years handed to the simulators: the covered years and the one after
YearArgs == FirstYear..(LastYear + 1)
\* tradingMonth arguments: the random marker, months at both ends of the
\* year, one below the months and one above
MonthArgs == {0 - 1, 0, 1, 2, 11, 12, PastDecember}
\* timesPerYear arguments: the supported ones and some that are not
TimesArgs == Range(valid_trading_frequencies) \cup {1, 5, 8}

\* three of the series: complete, lacking the last month of the first year,
\* and lacking the first month of the last year
SampleSeries == IndexSeries({{}, Gap(FirstYear, 12, 1), Gap(LastYear, 1, 1)})

\* a call with the random marker -1 is made over windows of at most two years
YearlyCalls ==
  [fn : {"investYearly"}, tradingDays : GapSeries,
   yearlyInvestment : {yearlyInvestmentMain},
   startYear : YearArgs, endYear : YearArgs, tradingMonth : MonthArgs \ {0 - 1}]
  \cup
  {c \in [fn : {"investYearly"}, tradingDays : SampleSeries,
          yearlyInvestment : {yearlyInvestmentMain},
          startYear : YearArgs, endYear : YearArgs, tradingMonth : {0 - 1}] :
     c.endYear <= c.startYear + 1}

SubannualCalls ==
  [fn : {"investSubannually"}, tradingDays : GapSeries,
   yearlyInvestment : {yearlyInvestmentMain},
   startYear : YearArgs, endYear : YearArgs, timesPerYear : TimesArgs]

McCalls ==
  [fn : {"monteCarlo"}, earliest_year : Years, index : SampleSeries,
   yearly_investment : {yearlyInvestmentMain}, iterations : 0..MaxIterations,
   sub_annual_times_per_year : Range(valid_trading_frequencies) \cup {0 - 1, 5}]

\* the ledger of an investor who bought the yearly amount in each month of g
LedgerOf(g) ==
  LET bought == SelectSeq(YearMonths, LAMBDA ym : ym \in g)
  IN  [i \in 1..Len(bought) |->
         <<DateKey(bought[i][1], bought[i][2]),
           investment_to_shares(Float(yearlyInvestmentMain),
                                OpenPrice(bought[i][1], bought[i][2]))>>]

ValuationCalls ==
  [fn : {"share_purchases_to_portfolio_value"},
   index_prices : SampleSeries,
   purchases : {LedgerOf(g) : g \in Gaps(MaxLedger)}]

\* dates of a key list handed to get_first_marketday directly: two days in
\* some months, months of one and of two digits, a year on each side of the
\* valid range
ResolverDates ==
  <<<<MinYear - 1, 1, 2>>, <<LastYear - 1, 1, 3>>, <<LastYear - 1, 1, 17>>,
    <<LastYear - 1, 10, 2>>, <<LastYear, 1, 2>>, <<LastYear, 12, 2>>,
    <<LastYear, 12, 30>>, <<LastYear + 1, 1, 2>>>>

\* the key lists: the dates of a set of positions, in ascending date order
KeyListOf(positions) ==
  LET kept == SelectSeq([i \in 1..Len(ResolverDates) |-> i],
                        LAMBDA i : i \in positions)
  IN  [j \in 1..Len(kept) |->
         <<strftime(ResolverDates[kept[j]][1], ResolverDates[kept[j]][2],
                    ResolverDates[kept[j]][3]),
           Float(PriceList[(kept[j] % Len(PriceList)) + 1])>>]

ResolverCalls ==
  [fn : {"get_first_marketday"},
   kl : {KeyListOf(p) : p \in SUBSET (1..Len(ResolverDates))},
   yr : {MinYear - 1, MinYear, LastYear - 1, LastYear, LastYear + 1},
   mo : MonthArgs \cup {10}]

\* the calls of get_index_data: the raw data of the index, and the starting
\* year, in range and on each side of the range
IndexCalls ==
  [fn : {"get_index_data"}, missing : Gaps(MaxGap),
   starting_year : {MinStartingYear - 1, FirstYear, LastYear + 1}]

(***************************************************************************)
(* Frames before a function is entered.                                    *)
(***************************************************************************)
NoSimFrame ==
  /\ tradingDays = EmptyDict /\ yearlyInvestment = 0
  /\ startYear = 0 /\ endYear = 0 /\ tradingMonth = 0 /\ timesPerYear = 0
  /\ yearInvested = 0 /\ event = 0 /\ monthInvested = 0 /\ errorMonth = 0
  /\ mon = 0 /\ dateKey = <<>> /\ heldShares = EmptyDict /\ totalShares = Zero

NoMcFrame ==
  /\ mcpc = "none" /\ it = 0 /\ start_year = 0 /\ end_year = 0
  /\ times_per_year = 0 /\ totalSharesY = Zero /\ returns_ratio = <<>>

NoValFrame ==
  /\ datePos = 0 /\ portfolio_value = Zero /\ portfolio_held_shares = Zero
  /\ dated_portfolio_values = EmptyDict

(***************************************************************************)
(* investSubannually(tradingDays, yearlyInvestment, startYear, endYear,    *)
(*                   timesPerYear)                                         *)
(***************************************************************************)
\* mutation: the operands of the division swapped
monthSpanSwapped(times) == round(FDiv(Float(times), Float(12)))

\* monthSpan = round(12 / timesPerYear)
monthSpan(times) == round(FDiv(Float(12), Float(times)))

\* monthInvestment = yearlyInvestment / timesPerYear
monthInvestment(yearly, times) == FDiv(Float(yearly), Float(times))

\* mutation: the next event is scheduled from the rolled-forward month
NextMonthInvestedFromCursor(invested, cursor, times) == cursor + monthSpan(times)

\* mutation: the schedule of a year starts in January
NextMonthInvestedFromJanuary(invested, cursor, times) ==
  IF invested = 0 THEN 1 ELSE invested + monthSpan(times)

\* monthInvested = monthInvested + monthSpan
NextMonthInvested(invested, cursor, times) == invested + monthSpan(times)

\* mutation: the fatal test one month late
PastYearEndLate(cursor) == cursor = PastDecember + 1

\* the fatal test of the roll-forward loop
PastYearEnd(cursor) == cursor = PastDecember

\* mutation: the total follows the ledger and counts a date once
AddSharesNewKeyOnly(total, shares, held, key) ==
  IF key \in KeySet(held) THEN total ELSE FAdd(total, shares)

\* totalShares = totalShares + shares
AddShares(total, shares, held, key) == FAdd(total, shares)

\* entry: the locals before the year loop
EnterSubannually(days, yearly, first, last, times) ==
  /\ tradingDays' = days /\ yearlyInvestment' = yearly
  /\ startYear' = first /\ endYear' = last /\ timesPerYear' = times
  /\ heldShares' = EmptyDict /\ totalShares' = Zero
  /\ monthInvested' = 0 /\ errorMonth' = 0
  /\ yearInvested' = first /\ event' = 0
  /\ tradingMonth' = 0 /\ mon' = 0 /\ dateKey' = <<>>
  /\ pc' = "sub_for_year"

\* for yearInvested in range(startYear, endYear + 1): restart the year's variables
SubForYear ==
  /\ pc = "sub_for_year"
  /\ yearInvested <= endYear
  /\ errorMonth' = 0 /\ monthInvested' = 0 /\ event' = 0
  /\ pc' = "sub_for_event"
  /\ UNCHANGED <<call, rng, result, simArgs, tradingMonth, yearInvested, mon, dateKey,
                 heldShares, totalShares, mcVars, valVars>>

\* for event in range(timesPerYear): the event's month and its first date key
SubForEvent ==
  /\ pc = "sub_for_event"
  /\ event < timesPerYear
  /\ monthInvested' = NextMonthInvested(monthInvested, errorMonth, timesPerYear)
  /\ errorMonth' = monthInvested'
  /\ dateKey' = get_first_marketday(tradingDays, yearInvested, monthInvested')
  /\ pc' = "sub_while"
  /\ UNCHANGED <<call, rng, result, simArgs, tradingMonth, yearInvested, event, mon,
                 heldShares, totalShares, mcVars, valVars>>

\* the event loop of a year is exhausted: the next year
SubNextYear ==
  /\ pc = "sub_for_event"
  /\ event >= timesPerYear
  /\ yearInvested' = yearInvested + 1
  /\ pc' = "sub_for_year"
  /\ UNCHANGED <<call, rng, result, simArgs, tradingMonth, event, monthInvested,
                 errorMonth, mon, dateKey, heldShares, totalShares, mcVars, valVars>>

\* while dateKey == "notFound": one pass that tries the next month
SubWhile ==
  /\ pc = "sub_while"
  /\ dateKey = notFound
  /\ errorMonth < MaxCursor
  /\ ~PastYearEnd(errorMonth + 1)
  /\ errorMonth' = errorMonth + 1
  /\ dateKey' = get_first_marketday(tradingDays, yearInvested, errorMonth')
  /\ UNCHANGED <<call, rng, pc, result, simArgs, tradingMonth, yearInvested, event,
                 monthInvested, mon, heldShares, totalShares, mcVars, valVars>>

\* while dateKey == "notFound": the pass that reaches month 13 and exits
SubExit ==
  /\ pc = "sub_while"
  /\ dateKey = notFound
  /\ PastYearEnd(errorMonth + 1)
  /\ errorMonth' = errorMonth + 1
  /\ pc' = "exited"
  /\ mcpc' = IF mcpc = "none" THEN mcpc ELSE "exited"
  /\ UNCHANGED <<call, rng, result, simArgs, tradingMonth, yearInvested, event,
                 monthInvested, mon, dateKey, heldShares, totalShares,
                 it, start_year, end_year, times_per_year, totalSharesY, returns_ratio,
                 valVars>>

\* the purchase of an event whose date key was found
SubPurchase ==
  /\ pc = "sub_while"
  /\ dateKey # notFound
  /\ LET sp500_value == Item(tradingDays, dateKey)
         shares == investment_to_shares(
                     monthInvestment(yearlyInvestment, timesPerYear), sp500_value)
     IN  /\ heldShares' = SetItem(heldShares, dateKey, shares)
         /\ totalShares' = AddShares(totalShares, shares, heldShares, dateKey)
  /\ event' = event + 1
  /\ pc' = "sub_for_event"
  /\ UNCHANGED <<call, rng, result, simArgs, tradingMonth, yearInvested, monthInvested,
                 errorMonth, mon, dateKey, mcVars, valVars>>

\* return heldShares, totalShares
SubReturn ==
  /\ pc = "sub_for_year"
  /\ yearInvested > endYear
  /\ pc' = "sub_returned"
  /\ result' = IF call.fn = "investSubannually" THEN <<heldShares, totalShares>> ELSE result
  /\ UNCHANGED <<call, rng, simArgs, simLocals, mcVars, valVars>>

(***************************************************************************)
(* investYearly(tradingDays, yearlyInvestment, startYear, endYear,         *)
(*              tradingMonth)                                              *)
(***************************************************************************)
\* the month asked for in the retry of the roll-forward loop
RetryMonth(month, cursor) == month

\* the months random.randint(1, 12) can return
RandomMonths == 1..12

\* mon: a random month when tradingMonth is -1, else tradingMonth
MonthsOfYear(month) == IF month = 0 - 1 THEN RandomMonths ELSE {month}

EnterYearly(days, yearly, first, last, month) ==
  /\ tradingDays' = days /\ yearlyInvestment' = yearly
  /\ startYear' = first /\ endYear' = last /\ tradingMonth' = month
  /\ heldShares' = EmptyDict /\ totalShares' = Zero
  /\ yearInvested' = first
  /\ timesPerYear' = 0 /\ event' = 0 /\ monthInvested' = 0 /\ errorMonth' = 0
  /\ mon' = 0 /\ dateKey' = <<>>
  /\ pc' = "yr_for_year"

\* for yearInvested in range(startYear, endYear + 1): the month and its date key
YrForYear ==
  /\ pc = "yr_for_year"
  /\ yearInvested <= endYear
  /\ mon' \in MonthsOfYear(tradingMonth)
  /\ rng' = IF tradingMonth = 0 - 1 THEN Drawn(rng, 1) ELSE rng
  /\ dateKey' = get_first_marketday(tradingDays, yearInvested, mon')
  /\ pc' = "yr_while"
  /\ UNCHANGED <<call, result, simArgs, tradingMonth, yearInvested, event,
                 monthInvested, errorMonth, heldShares, totalShares, mcVars, valVars>>

\* while dateKey == "notFound": one pass that advances tradingMonth and retries
YrWhile ==
  /\ pc = "yr_while"
  /\ dateKey = notFound
  /\ tradingMonth < MaxCursor
  /\ ~PastYearEnd(tradingMonth + 1)
  /\ tradingMonth' = tradingMonth + 1
  /\ dateKey' = get_first_marketday(tradingDays, yearInvested, RetryMonth(mon, tradingMonth'))
  /\ UNCHANGED <<call, rng, pc, result, simArgs, yearInvested, event, monthInvested,
                 errorMonth, mon, heldShares, totalShares, mcVars, valVars>>

\* while dateKey == "notFound": the pass that reaches month 13 and exits
YrExit ==
  /\ pc = "yr_while"
  /\ dateKey = notFound
  /\ PastYearEnd(tradingMonth + 1)
  /\ tradingMonth' = tradingMonth + 1
  /\ pc' = "exited"
  /\ mcpc' = IF mcpc = "none" THEN mcpc ELSE "exited"
  /\ UNCHANGED <<call, rng, result, simArgs, yearInvested, event, monthInvested,
                 errorMonth, mon, dateKey, heldShares, totalShares,
                 it, start_year, end_year, times_per_year, totalSharesY, returns_ratio,
                 valVars>>

\* the year's purchase at the date key that was found
YrPurchase ==
  /\ pc = "yr_while"
  /\ dateKey # notFound
  /\ LET sp500_value == Item(tradingDays, dateKey)
         shares == investment_to_shares(Float(yearlyInvestment), sp500_value)
     IN  /\ heldShares' = SetItem(heldShares, dateKey, shares)
         /\ totalShares' = AddShares(totalShares, shares, heldShares, dateKey)
  /\ yearInvested' = yearInvested + 1
  /\ pc' = "yr_for_year"
  /\ UNCHANGED <<call, rng, result, simArgs, tradingMonth, event, monthInvested,
                 errorMonth, mon, dateKey, mcVars, valVars>>

\* return heldShares, totalShares
YrReturn ==
  /\ pc = "yr_for_year"
  /\ yearInvested > endYear
  /\ pc' = "yr_returned"
  /\ result' = IF call.fn = "investYearly" THEN <<heldShares, totalShares>> ELSE result
  /\ UNCHANGED <<call, rng, simArgs, simLocals, mcVars, valVars>>

(***************************************************************************)
(* monteCarlo(earliest_year, index, yearly_investment, iterations,         *)
(*            sub_annual_times_per_year)                                   *)
(***************************************************************************)
\* trading_month = 1: the yearly investor always invests in January
trading_month == 1

\* mutation: a single-year window is drawn again too
ResampleOnEqual(first, last) == last <= first

\* mutation: the comparison of the loop test reversed
ResampleReversed(first, last) == last > first

\* the test of the resample loop: while end_year < start_year
Resample(first, last) == last < first

\* the supported-frequency check: exit on a value outside the list
McExit ==
  /\ mcpc = "mc_check"
  /\ call.sub_annual_times_per_year \notin Range(valid_trading_frequencies)
  /\ mcpc' = "exited" /\ pc' = "exited"
  /\ UNCHANGED <<call, rng, result, simArgs, simLocals, it, start_year, end_year,
                 times_per_year, totalSharesY, returns_ratio, valVars>>

\* the check passes: on to the trial loop
McCheck ==
  /\ mcpc = "mc_check"
  /\ call.sub_annual_times_per_year \in Range(valid_trading_frequencies)
  /\ mcpc' = "mc_for"
  /\ UNCHANGED <<call, rng, pc, result, simArgs, simLocals, it, start_year, end_year,
                 times_per_year, totalSharesY, returns_ratio, valVars>>

\* for it in range(iterations): invalid years, and the trial's frequency
McFor ==
  /\ mcpc = "mc_for"
  /\ it < call.iterations
  /\ start_year' = 0 /\ end_year' = 0 - 1
  /\ IF call.sub_annual_times_per_year = 0 - 1
     THEN /\ times_per_year' \in Range(valid_trading_frequencies)
          /\ rng' = Drawn(rng, 1)
     ELSE /\ times_per_year' = call.sub_annual_times_per_year
          /\ rng' = rng
  /\ mcpc' = "mc_while"
  /\ UNCHANGED <<call, pc, result, simArgs, simLocals, it, totalSharesY,
                 returns_ratio, valVars>>

\* mutation: only start_year is drawn again
McWhileStartOnly ==
  /\ mcpc = "mc_while"
  /\ Resample(start_year, end_year)
  /\ start_year' \in call.earliest_year..LastYear
  /\ rng' = Drawn(rng, 1)
  /\ UNCHANGED <<call, pc, result, simArgs, simLocals, mcpc, it, end_year,
                 times_per_year, totalSharesY, returns_ratio, valVars>>

\* while end_year < start_year: draw both years again
McWhile ==
  /\ mcpc = "mc_while"
  /\ Resample(start_year, end_year)
  /\ start_year' \in call.earliest_year..LastYear
  /\ end_year' \in call.earliest_year..LastYear
  /\ rng' = Drawn(rng, 2)
  /\ UNCHANGED <<call, pc, result, simArgs, simLocals, mcpc, it, times_per_year,
                 totalSharesY, returns_ratio, valVars>>

\* the window is kept: investYearly is called
McCallYearly ==
  /\ mcpc = "mc_while"
  /\ ~Resample(start_year, end_year)
  /\ EnterYearly(call.index, call.yearly_investment, start_year, end_year, trading_month)
  /\ mcpc' = "mc_yearly"
  /\ UNCHANGED <<call, rng, result, it, start_year, end_year, times_per_year,
                 totalSharesY, returns_ratio, valVars>>

\* investYearly returned: its total is kept and investSubannually is called
McCallSubannually ==
  /\ mcpc = "mc_yearly"
  /\ pc = "yr_returned"
  /\ totalSharesY' = totalShares
  /\ EnterSubannually(call.index, call.yearly_investment, start_year, end_year,
                      times_per_year)
  /\ mcpc' = "mc_subannual"
  /\ UNCHANGED <<call, rng, result, it, start_year, end_year, times_per_year,
                 returns_ratio, valVars>>

\* investSubannually returned: the sample is appended
McAppend ==
  /\ mcpc = "mc_subannual"
  /\ pc = "sub_returned"
  /\ IF totalShares = Zero
     THEN /\ mcpc' = "raised" /\ pc' = "raised"
          /\ UNCHANGED <<it, returns_ratio>>
     ELSE /\ returns_ratio' =
               Append(returns_ratio,
                      <<start_year, end_year, FDiv(totalSharesY, totalShares)>>)
          /\ it' = it + 1
          /\ mcpc' = "mc_for" /\ pc' = "idle"
  /\ UNCHANGED <<call, rng, result, simArgs, simLocals, start_year, end_year,
                 times_per_year, totalSharesY, valVars>>

\* return returns_ratio
McReturn ==
  /\ mcpc = "mc_for"
  /\ it >= call.iterations
  /\ mcpc' = "mc_returned"
  /\ result' = returns_ratio
  /\ UNCHANGED <<call, rng, pc, simArgs, simLocals, it, start_year, end_year,
                 times_per_year, totalSharesY, returns_ratio, valVars>>

(***************************************************************************)
(* share_purchases_to_portfolio_value(index_prices, purchases)             *)
(***************************************************************************)
\* mutation: the balance is replaced by the date's purchase
HeldReset(held, bought) == bought

\* portfolio_held_shares += purchases.get(date, 0)
HeldAfter(held, bought) == FAdd(held, bought)

\* for date in index_prices: one date of the series
ValFor ==
  /\ pc = "val_for"
  /\ datePos < Len(call.index_prices)
  /\ LET date == Keys(call.index_prices)[datePos + 1]
     IN  /\ portfolio_held_shares' =
               HeldAfter(portfolio_held_shares, Get(call.purchases, date, Zero))
         /\ portfolio_value' =
               FMul(portfolio_held_shares', Item(call.index_prices, date))
         /\ dated_portfolio_values' =
               SetItem(dated_portfolio_values, date, portfolio_value')
  /\ datePos' = datePos + 1
  /\ UNCHANGED <<call, rng, pc, result, simArgs, simLocals, mcVars>>

\* return dated_portfolio_values
ValReturn ==
  /\ pc = "val_for"
  /\ datePos >= Len(call.index_prices)
  /\ pc' = "val_returned"
  /\ result' = dated_portfolio_values
  /\ UNCHANGED <<call, rng, simArgs, simLocals, mcVars, valVars>>

(***************************************************************************)
(* get_first_marketday(kl, yr, mo), called on its own                      *)
(***************************************************************************)
ResolveCall ==
  /\ pc = "gfm_call"
  /\ result' = get_first_marketday(call.kl, call.yr, call.mo)
  /\ pc' = "gfm_returned"
  /\ UNCHANGED <<call, rng, simArgs, simLocals, mcVars, valVars>>

(***************************************************************************)
(* get_index_data(index, starting_year), called on its own                 *)
(***************************************************************************)
GetIndexData ==
  /\ pc = "gid_call"
  /\ LET r == get_index_data(call.missing, call.starting_year)
     IN  IF r.status = "returned"
         THEN /\ result' = <<r.dictionary_data, r.earliest_year_in_data,
                             raw_data(call.missing, call.starting_year)>>
              /\ pc' = "gid_returned"
         ELSE /\ result' = result
              /\ pc' = r.status
  /\ UNCHANGED <<call, rng, simArgs, simLocals, mcVars, valVars>>

(***************************************************************************)
(* The specification.                                                      *)
(***************************************************************************)
InitYearly ==
  /\ call \in YearlyCalls
  /\ pc = "yr_for_year" /\ result = <<>>
  /\ tradingDays = call.tradingDays /\ yearlyInvestment = call.yearlyInvestment
  /\ startYear = call.startYear /\ endYear = call.endYear
  /\ tradingMonth = call.tradingMonth /\ timesPerYear = 0
  /\ yearInvested = call.startYear /\ event = 0 /\ monthInvested = 0
  /\ errorMonth = 0 /\ mon = 0 /\ dateKey = <<>>
  /\ heldShares = EmptyDict /\ totalShares = Zero
  /\ NoMcFrame /\ NoValFrame /\ rng = 0

InitSubannually ==
  /\ call \in SubannualCalls
  /\ pc = "sub_for_year" /\ result = <<>>
  /\ tradingDays = call.tradingDays /\ yearlyInvestment = call.yearlyInvestment
  /\ startYear = call.startYear /\ endYear = call.endYear
  /\ tradingMonth = 0 /\ timesPerYear = call.timesPerYear
  /\ yearInvested = call.startYear /\ event = 0 /\ monthInvested = 0
  /\ errorMonth = 0 /\ mon = 0 /\ dateKey = <<>>
  /\ heldShares = EmptyDict /\ totalShares = Zero
  /\ NoMcFrame /\ NoValFrame /\ rng = 0

InitMonteCarlo ==
  /\ call \in McCalls
  /\ pc = "idle" /\ result = <<>>
  /\ NoSimFrame /\ NoValFrame
  /\ mcpc = "mc_check" /\ it = 0 /\ start_year = 0 /\ end_year = 0
  /\ times_per_year = 0 /\ totalSharesY = Zero /\ returns_ratio = <<>>
  /\ rng = 0

InitValuation ==
  /\ call \in ValuationCalls
  /\ pc = "val_for" /\ result = <<>>
  /\ NoSimFrame /\ NoMcFrame /\ NoValFrame /\ rng = 0

InitResolver ==
  /\ call \in ResolverCalls
  /\ pc = "gfm_call" /\ result = <<>>
  /\ NoSimFrame /\ NoMcFrame /\ NoValFrame /\ rng = 0

InitIndexData ==
  /\ call \in IndexCalls
  /\ pc = "gid_call" /\ result = <<>>
  /\ NoSimFrame /\ NoMcFrame /\ NoValFrame /\ rng = 0

Init ==
  \/ InitYearly \/ InitSubannually \/ InitMonteCarlo \/ InitValuation
  \/ InitResolver \/ InitIndexData

Next ==
  \/ SubForYear \/ SubForEvent \/ SubNextYear \/ SubWhile \/ SubExit
  \/ SubPurchase \/ SubReturn
  \/ YrForYear \/ YrWhile \/ YrExit \/ YrPurchase \/ YrReturn
  \/ McExit \/ McCheck \/ McFor \/ McWhile \/ McCallYearly \/ McCallSubannually
  \/ McAppend \/ McReturn
  \/ ValFor \/ ValReturn
  \/ ResolveCall
  \/ GetIndexData

Spec == Init /\ [][Next]_vars

\* a pass of the resample loop in which random.randint returns a window
\* that ends no earlier than it starts
McDrawKept == McWhile /\ start_year' <= end_year'

(***************************************************************************)
(* The calls of monteCarlo, followed to their end under fair sampling.     *)
(***************************************************************************)
\* the series of the calls of monteCarlo followed to their end: those of
\* SampleSeries, and one lacking a month in the middle of the last year
FairSeries == SampleSeries \cup IndexSeries({Gap(LastYear, 6, 1)})

\* their frequencies: two supported ones, the random marker, an unsupported one
FairFrequencies == {2, 4, 0 - 1, 5}

McFairCalls ==
  [fn : {"monteCarlo"}, earliest_year : Years, index : FairSeries,
   yearly_investment : {yearlyInvestmentMain}, iterations : 0..MaxIterations,
   sub_annual_times_per_year : FairFrequencies]

InitFair ==
  /\ call \in McFairCalls
  /\ pc = "idle" /\ result = <<>>
  /\ NoSimFrame /\ NoValFrame
  /\ mcpc = "mc_check" /\ it = 0 /\ start_year = 0 /\ end_year = 0
  /\ times_per_year = 0 /\ totalSharesY = Zero /\ returns_ratio = <<>>
  /\ rng = 0

\* a step of monteCarlo or of a simulator it called
McNext ==
  \/ McExit \/ McCheck \/ McFor \/ McWhile \/ McCallYearly \/ McCallSubannually
  \/ McAppend \/ McReturn
  \/ YrForYear \/ YrWhile \/ YrExit \/ YrPurchase \/ YrReturn
  \/ SubForYear \/ SubForEvent \/ SubNextYear \/ SubWhile \/ SubExit
  \/ SubPurchase \/ SubReturn

\* the call has neither returned nor ended the program
McRunning == mcpc \notin {"mc_returned", "exited", "raised"}

\* a step of McNext is possible exactly while the call is running
McRunningIsEnabled == McRunning <=> ENABLED <<McNext>>_vars

\* the program keeps running while it has a step to take: the weak fairness
\* of McNext, WF_vars(McNext), written with McRunning for the enabling
\* condition of McNext; and the windows random.randint can return that end
\* the resample loop are not withheld for ever
FairSpec ==
  /\ InitFair /\ [][McNext]_vars
  /\ (([]<>~McRunning) \/ ([]<><<McNext>>_vars))
  /\ SF_vars(McDrawKept)

(***************************************************************************)
(* Vocabulary of the properties.                                           *)
(***************************************************************************)
ValidTimes == {2, 3, 4, 6, 12}

\* a <= b, for two fractions
FLeq(a, b) == a[1] * b[2] <= b[1] * a[2]

RECURSIVE SumValues(_)
\* the sum of the values of a ledger
SumValues(d) ==
  IF d = <<>> THEN Zero ELSE FAdd(SumValues(SubSeq(d, 1, Len(d) - 1)), d[Len(d)][2])

\* the series has an entry for month m of year y
HasEntry(days, y, m) == \E i \in 1..Len(days) : days[i][1] = DateKey(y, m)

\* some month from m through December of year y has an entry
Resolvable(days, y, m) == \E a \in m..12 : HasEntry(days, y, a)

\* the first month from m on, in year y, that has an entry
FirstMonthFrom(days, y, m) ==
  CHOOSE a \in m..12 :
    HasEntry(days, y, a) /\ \A b \in m..(a - 1) : ~HasEntry(days, y, b)

\* every month of every year of the window has an entry
WindowComplete(days, first, last) ==
  \A y \in first..last : \A m \in 1..12 : HasEntry(days, y, m)

\* amount / price as a fraction, for an integer amount split in `parts`
SharesFor(amount, parts, price) == Frac(amount * price[2], parts * price[1])

\* a simulator frame of investSubannually / investYearly is active or finished
InSubannual ==
  pc \in {"sub_for_year", "sub_for_event", "sub_while", "sub_returned"}
InYearly == pc \in {"yr_for_year", "yr_while", "yr_returned"}

\* the tradingMonth argument the running investYearly was called with
ArgMonth == IF call.fn = "investYearly" THEN call.tradingMonth ELSE trading_month

(***************************************************************************)
(* C1: in investYearly, when the year's target month has no entry but a    *)
(* later month of the year has one, the purchase is made at the first      *)
(* later month with an entry and the run does not abort.  As a state       *)
(* predicate: the annual simulator exits only in a year in which no month  *)
(* from the target month through December has an entry, and a purchase     *)
(* just made is dated in the first month with an entry from the target on. *)
(***************************************************************************)
C1_YearlyRollsForward ==
  /\ (call.fn = "investYearly" /\ call.tradingMonth \in 1..12 /\ pc = "exited")
       => ~Resolvable(tradingDays, yearInvested, mon)
  /\ (call.fn = "investYearly" /\ call.tradingMonth \in 1..12
        /\ pc = "yr_for_year" /\ yearInvested > startYear)
       => dateKey = DateKey(yearInvested - 1,
                            FirstMonthFrom(tradingDays, yearInvested - 1, mon))

(***************************************************************************)
(* C2: monteCarlo called with the frequency -1 does not abort and runs     *)
(* every trial's investSubannually with a frequency of {2,3,4,6,12}.  As a *)
(* state predicate, over a complete series: the call never exits, and the  *)
(* trial's frequency is a supported one once the trial has started.        *)
(***************************************************************************)
C2_SentinelAccepted ==
  (call.fn = "monteCarlo" /\ call.sub_annual_times_per_year = 0 - 1
     /\ call.index = CompleteSeries)
    => /\ mcpc # "exited"
       /\ mcpc \in {"mc_while", "mc_yearly", "mc_subannual"}
            => times_per_year \in ValidTimes

(***************************************************************************)
(* C3: in investSubannually with a supported timesPerYear, every purchase  *)
(* is scheduled at its own month event * (12 / timesPerYear), whatever the *)
(* earlier events of the year rolled to; it is dated in the first month    *)
(* from the scheduled one on that has an entry, and the ledger holds for   *)
(* that date yearlyInvestment / timesPerYear divided by that date's price. *)
(***************************************************************************)
C3_EventRollsForward ==
  (pc = "sub_for_event" /\ event >= 1 /\ timesPerYear \in ValidTimes)
    => LET target == event * (12 \div timesPerYear)
           m == FirstMonthFrom(tradingDays, yearInvested, target)
       IN  /\ monthInvested = target
           /\ Resolvable(tradingDays, yearInvested, target)
           /\ dateKey = DateKey(yearInvested, m)
           /\ Item(heldShares, dateKey) =
                SharesFor(yearlyInvestment, timesPerYear, OpenPrice(yearInvested, m))

\* a purchase that rolled forward, after an earlier purchase of the same year
C3_Witness ==
  /\ pc = "sub_for_event" /\ event >= 2 /\ timesPerYear \in ValidTimes
  /\ errorMonth > monthInvested
  /\ dateKey = DateKey(yearInvested, errorMonth)

(***************************************************************************)
(* C4: over a window every month of which has an entry, investSubannually  *)
(* with timesPerYear of {2,3,4,6,12} returns a ledger whose dates are      *)
(* exactly the months k * (12 / timesPerYear), k = 1..timesPerYear, of     *)
(* every year, each with yearlyInvestment / timesPerYear divided by the    *)
(* price of that date.                                                     *)
(***************************************************************************)
C4_EvenlySpacedMonths ==
  (pc = "sub_returned" /\ timesPerYear \in ValidTimes /\ startYear <= endYear
     /\ WindowComplete(tradingDays, startYear, endYear))
    => /\ KeySet(heldShares) =
            {DateKey(y, k * (12 \div timesPerYear)) :
               y \in startYear..endYear, k \in 1..timesPerYear}
       /\ Len(heldShares) = timesPerYear * (endYear - startYear + 1)
       /\ \A i \in 1..Len(heldShares) :
            heldShares[i][2] =
              SharesFor(yearlyInvestment, timesPerYear,
                        Item(tradingDays, heldShares[i][1]))

\* a quarterly run over two complete years has returned
C4_Witness ==
  /\ pc = "sub_returned" /\ timesPerYear = 4 /\ startYear < endYear
  /\ WindowComplete(tradingDays, startYear, endYear)
  /\ Len(heldShares) = 8

(***************************************************************************)
(* C5: when investSubannually returns for startYear <= endYear and a       *)
(* supported timesPerYear, totalShares is the sum, over every year of the  *)
(* window and every event 1..timesPerYear, of the event's shares: none is  *)
(* lost, also when two events resolve to the same date and the ledger      *)
(* holds fewer dates than there were events.                               *)
(***************************************************************************)
EventShares(days, yearly, times, y, k) ==
  SharesFor(yearly, times,
            OpenPrice(y, FirstMonthFrom(days, y, k * (12 \div times))))

RECURSIVE SumEvents(_, _, _, _, _)
SumEvents(days, yearly, times, y, k) ==
  IF k = 0 THEN Zero
  ELSE FAdd(SumEvents(days, yearly, times, y, k - 1),
            EventShares(days, yearly, times, y, k))

RECURSIVE SumYears(_, _, _, _, _)
SumYears(days, yearly, times, first, y) ==
  IF y < first THEN Zero
  ELSE FAdd(SumYears(days, yearly, times, first, y - 1),
            SumEvents(days, yearly, times, y, times))

C5_TotalCountsEveryEvent ==
  (pc = "sub_returned" /\ timesPerYear \in ValidTimes /\ startYear <= endYear)
    => totalShares =
         SumYears(tradingDays, yearlyInvestment, timesPerYear, startYear, endYear)

\* a run has returned in which two events resolved to the same date
C5_Witness ==
  /\ pc = "sub_returned" /\ timesPerYear \in ValidTimes /\ startYear <= endYear
  /\ Len(heldShares) < timesPerYear * (endYear - startYear + 1)

(***************************************************************************)
(* C6: for every result a Strategy Simulator returns, the total shares     *)
(* held equals the sum of all values of the returned ledger.               *)
(***************************************************************************)
C6_TotalIsLedgerSum ==
  (pc \in {"sub_returned", "yr_returned"}) => totalShares = SumValues(heldShares)

(***************************************************************************)
(* C7: monteCarlo with a supported frequency over a series that has every  *)
(* month of [earliest_year, 2024] never aborts; it has appended one sample *)
(* per finished trial, the sample of a trial being the window the trial    *)
(* kept; every sample has                                                  *)
(* earliest_year <= startYear <= endYear <= 2024; it returns exactly       *)
(* `iterations` samples; and in the resample loop a window with            *)
(* start_year <= end_year (also start_year = end_year) is kept and handed  *)
(* to the simulators, while one with end_year < start_year is drawn again. *)
(***************************************************************************)
\* the series of monteCarlo's calls that have every month of [y, 2024]
CoveringFrom ==
  [y \in Years |-> {s \in SampleSeries : WindowComplete(s, y, LastYear)}]

C7_SamplesPerTrial ==
  (call.fn = "monteCarlo" /\ call.sub_annual_times_per_year \in ValidTimes
     /\ call.index \in CoveringFrom[call.earliest_year])
    => /\ mcpc \notin {"exited", "raised"}
       /\ Len(returns_ratio) = it
       /\ \A i \in 1..Len(returns_ratio) :
            /\ call.earliest_year <= returns_ratio[i][1]
            /\ returns_ratio[i][1] <= returns_ratio[i][2]
            /\ returns_ratio[i][2] <= LastYear
       /\ (mcpc = "mc_for" /\ it > 0)
            => /\ returns_ratio[it][1] = start_year
               /\ returns_ratio[it][2] = end_year
       /\ mcpc = "mc_returned"
            => /\ result = returns_ratio
               /\ Len(result) = call.iterations
       /\ (mcpc = "mc_while" /\ start_year <= end_year)
            => ENABLED McCallYearly /\ ~ENABLED McWhile
       /\ (mcpc = "mc_while" /\ end_year < start_year)
            => ENABLED McWhile /\ ~ENABLED McCallYearly
       /\ mcpc \in {"mc_yearly", "mc_subannual"}
            => /\ startYear = start_year /\ endYear = end_year
               /\ start_year <= end_year

\* a run returned its samples, the last one a single-year window
C7_Witness ==
  /\ call.fn = "monteCarlo" /\ call.sub_annual_times_per_year \in ValidTimes
  /\ call.index \in CoveringFrom[call.earliest_year]
  /\ mcpc = "mc_returned" /\ call.iterations = MaxIterations
  /\ Len(result) = MaxIterations
  /\ result[MaxIterations][1] = result[MaxIterations][2]
  /\ result[1][1] < result[1][2]

(***************************************************************************)
(* C8: the valuation has one entry per date of the series walked so far,   *)
(* in the order of the series, and at its return one per date of the       *)
(* series; the running balance is the sum of the ledger's shares of the    *)
(* series dates walked so far; the value of a date is the balance at that  *)
(* date times the date's price; and the balance never decreases from one   *)
(* date to the next.                                                       *)
(***************************************************************************)
RECURSIVE LedgerSumIn(_, _)
\* the sum of the ledger's shares over the dates of `dates`
LedgerSumIn(ledger, dates) ==
  IF ledger = <<>> THEN Zero
  ELSE FAdd(LedgerSumIn(Tail(ledger), dates),
            IF Head(ledger)[1] \in dates THEN Head(ledger)[2] ELSE Zero)

\* the dates of the first n items of a series
FirstDates(days, n) == {days[j][1] : j \in 1..n}

C8_ValuationPerDate ==
  (call.fn = "share_purchases_to_portfolio_value")
    => /\ Len(dated_portfolio_values) = datePos
       /\ pc = "val_returned"
            => /\ result = dated_portfolio_values
               /\ Keys(result) = Keys(call.index_prices)
       /\ portfolio_held_shares =
            LedgerSumIn(call.purchases, FirstDates(call.index_prices, datePos))
       /\ \A i \in 1..datePos :
            /\ dated_portfolio_values[i][1] = call.index_prices[i][1]
            /\ dated_portfolio_values[i][2] =
                 FMul(LedgerSumIn(call.purchases, FirstDates(call.index_prices, i)),
                      call.index_prices[i][2])
       /\ \A i \in 1..(datePos - 1) :
            FLeq(FDiv(dated_portfolio_values[i][2], call.index_prices[i][2]),
                 FDiv(dated_portfolio_values[i + 1][2], call.index_prices[i + 1][2]))

\* a valuation returned for a ledger of two dates of the series, and the
\* series has dates after the last purchase
C8_Witness ==
  /\ call.fn = "share_purchases_to_portfolio_value" /\ pc = "val_returned"
  /\ Len(call.purchases) = 2
  /\ KeySet(call.purchases) \subseteq KeySet(call.index_prices)
  /\ result[Len(result)][1] \notin KeySet(call.purchases)
  /\ result[Len(result)][2] # Zero
  /\ result[1][2] = Zero

(***************************************************************************)
(* C9: a ledger with a date that is not a date of the price series is      *)
(* rejected: the valuation does not return a value series for it.          *)
(***************************************************************************)
C9_ForeignLedgerRejected ==
  (call.fn = "share_purchases_to_portfolio_value"
     /\ ~(KeySet(call.purchases) \subseteq KeySet(call.index_prices)))
    => pc # "val_returned"

(***************************************************************************)
(* C10: a Strategy Simulator called with a month of 1..12 or the random    *)
(* marker (annual) or a supported timesPerYear (sub-annual) returns only   *)
(* if, in every year of the window, a month from the target month through  *)
(* December has an entry; once its roll-forward cursor is past December    *)
(* the run has exited; a run that exited has returned nothing; and no      *)
(* purchase is ever recorded under the key "notFound".                     *)
(***************************************************************************)
C10_FatalWhenYearUnresolvable ==
  /\ notFound \notin KeySet(heldShares)
  /\ pc = "exited" => result = <<>> /\ mcpc \in {"none", "exited"}
  /\ (InSubannual \/ pc = "exited") /\ timesPerYear \in ValidTimes
       => /\ errorMonth >= PastDecember => pc = "exited"
          /\ pc = "sub_returned"
               => \A y \in startYear..endYear : \A k \in 1..timesPerYear :
                    Resolvable(tradingDays, y, k * (12 \div timesPerYear))
  /\ (InYearly \/ pc = "exited") /\ timesPerYear = 0 /\ tradingDays # EmptyDict
       /\ ArgMonth \in (1..12) \cup {0 - 1}
       => /\ tradingMonth >= PastDecember => pc = "exited"
          /\ pc = "yr_returned"
               => /\ startYear <= endYear => Len(heldShares) = endYear - startYear + 1
                  /\ \A y \in startYear..endYear :
                       \E m \in 1..12 : DateKey(y, m) \in KeySet(heldShares)
                  /\ ArgMonth \in 1..12
                       => \A y \in startYear..endYear :
                            Resolvable(tradingDays, y, ArgMonth)

\* a sub-annual run exited in a year of the series, after purchases of that
\* year were recorded
C10_Witness ==
  /\ pc = "exited" /\ timesPerYear \in ValidTimes /\ result = <<>>
  /\ heldShares # EmptyDict /\ yearInvested \in Years /\ event >= 1
  /\ errorMonth = PastDecember
  /\ ~Resolvable(tradingDays, yearInvested, monthInvested)

(***************************************************************************)
(* C11: get_first_marketday over a key list in ascending date order        *)
(* returns "notFound" when the year is outside 1920..2024, or the month is *)
(* outside 1..12, or no key starts with the prefix yyyy-mm- (the month in  *)
(* two digits); in every other case it returns the lexicographically first *)
(* of the keys that start with the prefix, which is a key of the list.  A  *)
(* date key the simulators hold is "notFound" or a key of their series.    *)
(***************************************************************************)
\* the place of a character in the order of the characters of a date key
Ord(c) == IF c = "-" THEN 0 ELSE CHOOSE i \in 1..Len(Digits) : Digits[i] = c

RECURSIVE LexLeq(_, _)
\* a <= b for two strings
LexLeq(a, b) ==
  IF a = <<>> THEN TRUE
  ELSE IF b = <<>> THEN FALSE
  ELSE IF Head(a) # Head(b) THEN Ord(Head(a)) < Ord(Head(b))
  ELSE LexLeq(Tail(a), Tail(b))

\* s starts with p
StartsWith(s, p) == Len(p) <= Len(s) /\ SubSeq(s, 1, Len(p)) = p

\* the keys of kl that start with yyyy-mm-
PrefixKeys(kl, yr, mo) ==
  {k \in KeySet(kl) : StartsWith(k, str(yr) \o <<"-">> \o Pad2(mo) \o <<"-">>)}

C11_ResolverFirstKey ==
  /\ (call.fn = "get_first_marketday" /\ pc = "gfm_returned")
       => IF \/ call.yr < 1920 \/ call.yr > 2024
             \/ call.mo < 1 \/ call.mo > 12
             \/ PrefixKeys(call.kl, call.yr, call.mo) = {}
          THEN result = notFound
          ELSE /\ result \in PrefixKeys(call.kl, call.yr, call.mo)
               /\ \A k \in PrefixKeys(call.kl, call.yr, call.mo) : LexLeq(result, k)
               /\ result \in KeySet(call.kl)
  /\ (pc \in {"sub_while", "yr_while"} /\ dateKey # notFound)
       => dateKey \in KeySet(tradingDays)

\* the first of two keys of a month was returned
C11_Witness ==
  /\ call.fn = "get_first_marketday" /\ pc = "gfm_returned"
  /\ Cardinality(PrefixKeys(call.kl, call.yr, call.mo)) = 2
  /\ result # notFound

(***************************************************************************)
(* C12: an unsupported trading frequency is a fatal fault.  monteCarlo     *)
(* called with a frequency that is neither of {2,3,4,6,12} nor -1 has      *)
(* exited once its check has run, with no sample and no result; and        *)
(* investSubannually called with a timesPerYear outside {2,3,4,6,12} never *)
(* returns a result.                                                       *)
(***************************************************************************)
C12_UnsupportedFrequencyFatal ==
  /\ (call.fn = "monteCarlo"
        /\ call.sub_annual_times_per_year \notin ValidTimes \cup {0 - 1}
        /\ mcpc # "mc_check")
       => mcpc = "exited" /\ returns_ratio = <<>> /\ result = <<>>
  /\ (call.fn = "investSubannually" /\ call.timesPerYear \notin ValidTimes)
       => pc # "sub_returned" /\ result = <<>>

(***************************************************************************)
(* C13, as stated: for every timesPerYear of {2,3,4,6,12} and every        *)
(* series, no purchase recorded by investSubannually is dated in January.  *)
(***************************************************************************)
\* the month field of a date key yyyy-mm-dd
MonthField(key) == SubSeq(key, 6, 7)

\* the ledger has a purchase dated in January
JanuaryPurchase(held) == \E i \in 1..Len(held) : MonthField(held[i][1]) = <<"0", "1">>

C13_NeverJanuary ==
  (InSubannual /\ timesPerYear \in ValidTimes) => ~JanuaryPurchase(heldShares)

(***************************************************************************)
(* C13, amended: for every timesPerYear of {2,3,4,6} and every series, no  *)
(* purchase recorded by investSubannually is dated in January, neither as  *)
(* a scheduled month nor as a roll-forward month; with timesPerYear = 12   *)
(* the first event of every year is scheduled in January and is dated      *)
(* there when January has an entry.                                        *)
(***************************************************************************)
C13_NeverJanuaryUnlessMonthly ==
  /\ ((InSubannual \/ pc = "exited") /\ timesPerYear \in {2, 3, 4, 6})
       => /\ ~JanuaryPurchase(heldShares)
          /\ pc \in {"sub_while", "exited"}
               => monthInvested # 1 /\ errorMonth # 1
                    /\ dateKey \notin {DateKey(y, 1) : y \in Years}
  /\ (pc = "sub_while" /\ timesPerYear = 12 /\ event = 0)
       => /\ monthInvested = 1
          /\ (errorMonth = 1 /\ HasEntry(tradingDays, yearInvested, 1))
               => dateKey = DateKey(yearInvested, 1)
  /\ (pc = "sub_for_event" /\ timesPerYear = 12 /\ event = 1
        /\ HasEntry(tradingDays, yearInvested, 1))
       => DateKey(yearInvested, 1) \in KeySet(heldShares)

\* a run every two months returned over a year that has January but not
\* February, so that its first event rolled forward
C13_Witness ==
  /\ pc = "sub_returned" /\ timesPerYear = 6 /\ startYear <= endYear
  /\ HasEntry(tradingDays, startYear, 1)
  /\ ~HasEntry(tradingDays, startYear, 2)
  /\ Len(heldShares) < 6 * (endYear - startYear + 1)

(***************************************************************************)
(* C14: in every trial of monteCarlo that reaches the ratio, investYearly  *)
(* was run with the target month January and investSubannually with the    *)
(* trial's frequency, both over the trial's window [start_year, end_year]; *)
(* the yearly total is the sum of the January purchases of the window; and *)
(* the sub-annual total is strictly positive, so that the division never   *)
(* fails.                                                                  *)
(***************************************************************************)
RECURSIVE JanuaryTotal(_, _, _)
\* the shares of one purchase of `yearly` in January of each year first..y
JanuaryTotal(yearly, first, y) ==
  IF y < first THEN Zero
  ELSE FAdd(JanuaryTotal(yearly, first, y - 1), SharesFor(yearly, 1, OpenPrice(y, 1)))

C14_RatioDefined ==
  (call.fn = "monteCarlo")
    => /\ mcpc # "raised"
       /\ mcpc = "mc_yearly"
            => /\ startYear = start_year /\ endYear = end_year
               /\ yearlyInvestment = call.yearly_investment
               /\ pc = "yr_for_year" => tradingMonth = 1
               /\ pc = "yr_while" => mon = 1
       /\ mcpc = "mc_subannual"
            => /\ startYear = start_year /\ endYear = end_year
               /\ start_year <= end_year
               /\ yearlyInvestment = call.yearly_investment
               /\ timesPerYear = times_per_year
               /\ totalSharesY =
                    JanuaryTotal(call.yearly_investment, start_year, end_year)
               /\ totalSharesY[1] > 0
       /\ (mcpc = "mc_subannual" /\ pc = "sub_returned")
            => totalShares[1] > 0 /\ totalShares[2] > 0
       /\ \A i \in 1..Len(returns_ratio) : returns_ratio[i][3][1] > 0

\* a trial over two years is at the ratio, the two totals being different
C14_Witness ==
  /\ call.fn = "monteCarlo" /\ mcpc = "mc_subannual" /\ pc = "sub_returned"
  /\ start_year < end_year
  /\ totalShares # totalSharesY

(***************************************************************************)
(* C15: under fair sampling, in which no pair (start_year, end_year) of    *)
(* [earliest_year, 2024] is withheld for ever, every trial of monteCarlo   *)
(* that enters the resample loop leaves it with end_year >= start_year,    *)
(* and every call of monteCarlo eventually returns or exits.               *)
(***************************************************************************)
C15_ResampleTerminates ==
  /\ (call.fn = "monteCarlo" /\ mcpc = "mc_while")
       ~> (mcpc = "mc_yearly" /\ end_year >= start_year)
  /\ (call.fn = "monteCarlo") ~> (mcpc \in {"mc_returned", "exited"})

\* the last of several trials has drawn a window that must be drawn again
C15_Witness ==
  /\ call.fn = "monteCarlo" /\ mcpc = "mc_while"
  /\ call.iterations > 1 /\ it = call.iterations - 1
  /\ end_year < start_year /\ end_year >= call.earliest_year

(***************************************************************************)
(* C16: every call of investYearly and of investSubannually terminates,    *)
(* whatever the series, the window, the tradingMonth and the timesPerYear. *)
(* The year loop and the event loop run over finite ranges, and a pass of  *)
(* the roll-forward loop steps its cursor by one and ends the program when *)
(* the cursor equals 13; a month above 12 is never found.  So a call       *)
(* terminates exactly if the loop never starts a pass with its cursor at   *)
(* 13 or above, from where the cursor no longer meets 13: whenever the     *)
(* date key is not found, the cursor is below 13.                          *)
(***************************************************************************)
C16_RollForwardTerminates ==
  /\ (pc = "yr_while" /\ dateKey = notFound) => tradingMonth < PastDecember
  /\ (pc = "sub_while" /\ dateKey = notFound) => errorMonth < PastDecember

====
